---- MODULE Spec2Model ----
(***************************************************************************)
(* A model of src/src/app/page.tsx (the ContractAnalyzer component): the   *)
(* request/stream state machine of analyzeContract, clearAll and           *)
(* toggleMode, and the render functions formatText, renderExplanation and  *)
(* renderTable.                                                            *)
(*                                                                         *)
(* A JavaScript string is a sequence of one-character strings, so that     *)
(* split, trim, startsWith and substring are computed, not assumed.  An    *)
(* index of the source (0-based) is the index here minus one.              *)
(***************************************************************************)
EXTENDS Integers, Sequences, FiniteSets, TLC

VARIABLES
    question,      \* useState('')       page.tsx:15
    explanation,   \* useState('')       page.tsx:16  (the buffer)
    isLoading,     \* useState(false)    page.tsx:17
    error,         \* useState('')       page.tsx:18
    currentMode,   \* useState('contract') page.tsx:19
    pc,            \* where the one call of analyzeContract stands
    wire,          \* bytes of the response body not yet delivered by reader.read()
    pending,       \* bytes the TextDecoder holds back (an incomplete character)
    reads,         \* reader.read() results delivered to the running request
    errToasts,     \* toasts raised by the catch block of the running/last request
    askToasts,     \* "Question Required" toasts raised so far (capped)
    received,      \* history: the decoded chunks appended since the last reset
    resetInFlight, \* history: clearAll/toggleMode ran while a request was running
    text,          \* the complete response text of the streaming specification
    rendered,      \* what renderExplanation() returned for the current buffer
    line,          \* the argument of formatText in the formatter specification
    spans,         \* what formatText(line) returned
    tableRows,     \* the rows handed to renderTable in the table specification
    table          \* what renderTable(tableRows, 0) returned

vars == <<question, explanation, isLoading, error, currentMode, pc, wire, pending,
          reads, errToasts, askToasts, received, resetInFlight, text,
          rendered, line, spans, tableRows, table>>

-----------------------------------------------------------------------------
(* JavaScript string primitives.                                           *)

\* White space of String.prototype.trim and of \s among the characters used.
WhiteSpace == {" ", "\t", "\r", "\n"}

\* Characters the regular expression's . does not match.
LineTerminators == {"\n", "\r"}

Min(a, b) == IF a < b THEN a ELSE b

Max(a, b) == IF a > b THEN a ELSE b

\* s.substring(a, b): both ends clamped to [0, length], swapped when a > b.
substring(s, a, b) ==
    LET ca == Max(0, Min(a, Len(s)))
        cb == Max(0, Min(b, Len(s)))
        lo == Min(ca, cb)
        hi == Max(ca, cb)
    IN  SubSeq(s, lo + 1, hi)

\* s.substring(a)
substringFrom(s, a) == substring(s, a, Len(s))

startsWith(s, p) == Len(s) >= Len(p) /\ SubSeq(s, 1, Len(p)) = p

endsWith(s, p) == Len(s) >= Len(p) /\ SubSeq(s, Len(s) - Len(p) + 1, Len(s)) = p

\* s.trim()
trim(s) ==
    LET keep == {i \in 1..Len(s) : s[i] \notin WhiteSpace}
    IN  IF keep = {} THEN <<>>
        ELSE LET lo == CHOOSE i \in keep : \A j \in keep : i <= j
                 hi == CHOOSE i \in keep : \A j \in keep : i >= j
             IN  SubSeq(s, lo, hi)

\* s.split(c) for a one-character separator: never empty, keeps empty pieces.
RECURSIVE split(_, _)
split(s, c) ==
    LET at == {i \in 1..Len(s) : s[i] = c}
    IN  IF at = {} THEN <<s>>
        ELSE LET i == CHOOSE k \in at : \A j \in at : k <= j
             IN  <<SubSeq(s, 1, i - 1)>> \o split(SubSeq(s, i + 1, Len(s)), c)

RECURSIVE Concat(_)
Concat(ss) == IF ss = <<>> THEN <<>> ELSE Head(ss) \o Concat(Tail(ss))

-----------------------------------------------------------------------------
(* formatText, page.tsx:149-165.                                           *)

Stars == <<"*", "*">>

\* The 0-based offsets at which /\*\*.*?\*\*/ matches in s: a ** followed, after
\* characters that are no line terminators, by another **.
BoldEnds(s, i) ==
    {j \in (i + 2)..(Len(s) - 2) :
        /\ SubSeq(s, j + 1, j + 2) = Stars
        /\ \A k \in (i + 3)..j : s[k] \notin LineTerminators}

BoldStarts(s) ==
    {i \in 0..(Len(s) - 4) : SubSeq(s, i + 1, i + 2) = Stars /\ BoldEnds(s, i) # {}}

\* text.split(/(\*\*.*?\*\*)/g): the leftmost match, the shortest from there
\* (.*? is not greedy), the pieces between the matches and the matches themselves.
RECURSIVE splitBold(_)
splitBold(s) ==
    IF BoldStarts(s) = {} THEN <<s>>
    ELSE LET i == CHOOSE a \in BoldStarts(s) : \A b \in BoldStarts(s) : a <= b
             j == CHOOSE a \in BoldEnds(s, i) : \A b \in BoldEnds(s, i) : a <= b
         IN  <<SubSeq(s, 1, i), SubSeq(s, i + 1, j + 2)>>
                 \o splitBold(SubSeq(s, j + 3, Len(s)))

Plain(s) == [bold |-> FALSE, text |-> s]

Bold(s) == [bold |-> TRUE, text |-> s]

\* The test of page.tsx:158.
isBoldPart(part) == startsWith(part, Stars) /\ endsWith(part, Stars)

\* page.tsx:157-164: one part to one span.
formatPart(part) ==
    IF isBoldPart(part) THEN Bold(substring(part, 2, Len(part) - 2)) ELSE Plain(part)

\* A returned string is one plain span; a returned array is its spans in order.
formatText(t) ==
    IF t = <<>> THEN <<Plain(t)>>
    ELSE LET parts == splitBold(t)
         IN  IF Len(parts) = 1 THEN <<Plain(t)>>
             ELSE [k \in 1..Len(parts) |-> formatPart(parts[k])]

-----------------------------------------------------------------------------
(* renderTable, page.tsx:289-336.                                          *)

Pipe == "|"

\* page.tsx:295-297: row.split('|').filter(cell => cell.trim() !== '').map(trim)
tableCells(row) ==
    LET cells == split(row, Pipe)
        kept  == SelectSeq(cells, LAMBDA c : trim(c) # <<>>)
    IN  [k \in 1..Len(kept) |-> trim(kept[k])]

\* /^[\s-]+$/.test(s)
onlyDashesAndSpace(s) ==
    s # <<>> /\ \A k \in 1..Len(s) : s[k] \in WhiteSpace \cup {"-"}

\* The test of page.tsx:302-304 on one piece of rows[1].split('|').
isSeparatorCell(cell) == trim(cell) = <<>> \/ onlyDashesAndSpace(trim(cell))

\* page.tsx:301-304
hasSeparator(rows) ==
    /\ Len(rows) > 1
    /\ LET cells == split(rows[2], Pipe)
       IN  \A k \in 1..Len(cells) : isSeparatorCell(cells[k])

\* Variant: the body starts right after the header row, separator included.
firstDataRowKeepsSeparator(hasHeader) == IF hasHeader THEN 1 ELSE 0

\* page.tsx:323: the index tableData.slice starts from.
firstDataRow(hasHeader) == IF hasHeader THEN 2 ELSE 0

formatCells(cells) == [k \in 1..Len(cells) |-> formatText(cells[k])]

\* Variant: a single row is laid out as a table too.
tooFewRowsNever(rows) == FALSE

\* rows.length < 2, page.tsx:291
tooFewRows(rows) == Len(rows) < 2

\* Fewer than two rows: a bare <div> holding rows[0] as it is (no formatText).
\* Otherwise the table: <thead> of tableData[0] when hasHeader, <tbody> of
\* tableData.slice(hasHeader ? 2 : 0).
renderTable(rows, key) ==
    IF tooFewRows(rows)
    THEN [type |-> "div", key |-> key, text |-> IF rows = <<>> THEN <<>> ELSE rows[1]]
    ELSE LET tableData == [r \in 1..Len(rows) |-> tableCells(rows[r])]
             hasHeader == hasSeparator(rows)
             from      == firstDataRow(hasHeader)
             body      == SubSeq(tableData, from + 1, Len(tableData))
         IN  [type      |-> "table",
              key       |-> key,
              hasHeader |-> hasHeader,
              header    |-> IF hasHeader THEN formatCells(tableData[1]) ELSE <<>>,
              rows      |-> [r \in 1..Len(body) |-> formatCells(body[r])]]

-----------------------------------------------------------------------------
(* renderExplanation, page.tsx:168-286.  The forEach callback is          *)
(* renderLine; its closure variables are the fields of the pass state.     *)

NewLine == "\n"

H2 == <<"#", "#", " ">>

H3 == <<"#", "#", "#", " ">>

Bullet == <<"*", " ">>

Quote == <<">", " ">>

Rule == <<"-", "-", "-">>

\* page.tsx:172-177
passStart ==
    [elements |-> <<>>, key |-> 0, inList |-> FALSE, listItems |-> <<>>,
     inTable |-> FALSE, tableRows |-> <<>>, threw |-> FALSE]

\* elements.push(e) with key={key++}
push(st, e) ==
    [st EXCEPT !.elements = Append(@, e @@ [key |-> st.key]), !.key = @ + 1]

\* Variant: the end of the buffer is not looked for.
isLastLineNever(lines, idx) == FALSE

\* index === lines.length - 1   (page.tsx:221, 253)
isLastLine(lines, idx) == idx = Len(lines)

\* lines[index + 1]: undefined past the end.
Undefined == <<"undefined">>

nextLine(lines, idx) == IF idx + 1 \in DOMAIN lines THEN lines[idx + 1] ELSE Undefined

\* index === lines.length - 1 || !lines[index + 1].trim().startsWith(prefix)
\* "throw" is undefined.trim(), a TypeError.
runEnds(lines, idx, prefix) ==
    IF isLastLine(lines, idx) THEN "yes"
    ELSE IF nextLine(lines, idx) = Undefined THEN "throw"
    ELSE IF ~startsWith(trim(nextLine(lines, idx)), prefix) THEN "yes"
    ELSE "no"

\* page.tsx:264-266
prevLineIsHeading(lines, idx) ==
    /\ idx - 1 > 0
    /\ \/ startsWith(trim(lines[idx - 1]), H2)
       \/ startsWith(trim(lines[idx - 1]), H3)

\* page.tsx:268-269
nextLineIsList(lines, idx) ==
    /\ idx - 1 < Len(lines) - 1
    /\ startsWith(trim(lines[idx + 1]), Bullet)

\* Variant: only the line before is looked at.
emitsSpacerIgnoresList(lines, idx) == ~prevLineIsHeading(lines, idx)

\* page.tsx:271
emitsSpacer(lines, idx) == ~prevLineIsHeading(lines, idx) /\ ~nextLineIsList(lines, idx)

\* Variant: the items of the run before are not dropped.
openListItemsKept(st) == st.listItems

\* if (!inList) { inList = true; listItems = []; }   page.tsx:209-212
openListItems(st) == IF st.inList THEN st.listItems ELSE <<>>

\* if (!inTable) { inTable = true; tableRows = []; }  page.tsx:245-248
openTableRows(st) == IF st.inTable THEN st.tableRows ELSE <<>>

\* page.tsx:208-231
listLine(lines, idx, st, trimmedLine) ==
    LET items == openListItems(st)
                     \o <<formatText(substringFrom(trimmedLine, 2))>>
        st1   == [st EXCEPT !.inList = TRUE, !.listItems = items]
        ends  == runEnds(lines, idx, Bullet)
    IN  IF ends = "throw" THEN [st1 EXCEPT !.threw = TRUE]
        ELSE IF ends = "yes"
        THEN [push(st1, [type |-> "ul", items |-> items]) EXCEPT !.inList = FALSE]
        ELSE st1

\* page.tsx:244-259
tableLine(lines, idx, st, rawLine) ==
    LET rows == openTableRows(st) \o <<rawLine>>
        st1  == [st EXCEPT !.inTable = TRUE, !.tableRows = rows]
        ends == runEnds(lines, idx, <<Pipe>>)
    IN  IF ends = "throw" THEN [st1 EXCEPT !.threw = TRUE]
        ELSE IF ends = "yes"
        THEN [st1 EXCEPT !.elements = Append(@, renderTable(rows, st1.key)),
                         !.key = @ + 1,
                         !.inTable = FALSE]
        ELSE st1

\* One call of the forEach callback, page.tsx:179-283.
renderLine(lines, idx, st) ==
    LET rawLine     == lines[idx]
        trimmedLine == trim(rawLine)
    IN  IF st.threw THEN st
        ELSE IF trimmedLine = Rule THEN push(st, [type |-> "hr"])
        ELSE IF startsWith(trimmedLine, H2)
        THEN push(st, [type |-> "h2", spans |-> formatText(substringFrom(trimmedLine, 3))])
        ELSE IF startsWith(trimmedLine, H3)
        THEN push(st, [type |-> "h3", spans |-> formatText(substringFrom(trimmedLine, 4))])
        ELSE IF startsWith(trimmedLine, Bullet) THEN listLine(lines, idx, st, trimmedLine)
        ELSE IF startsWith(trimmedLine, Quote)
        THEN push(st, [type |-> "blockquote",
                       spans |-> formatText(substringFrom(trimmedLine, 2))])
        ELSE IF startsWith(trimmedLine, <<Pipe>>) THEN tableLine(lines, idx, st, rawLine)
        ELSE IF trimmedLine = <<>>
        THEN IF emitsSpacer(lines, idx) THEN push(st, [type |-> "spacer"]) ELSE st
        ELSE push(st, [type |-> "p", spans |-> formatText(rawLine)])

\* The pass state after the callback has run on lines[0 .. n-1].
RECURSIVE passAfter(_, _)
passAfter(lines, n) ==
    IF n = 0 THEN passStart ELSE renderLine(lines, n, passAfter(lines, n - 1))

\* explanation.split('\n')
linesOf(buf) == split(buf, NewLine)

\* The whole pass over a non-empty buffer.
renderPass(buf) == passAfter(linesOf(buf), Len(linesOf(buf)))

\* renderExplanation(): null (here the empty sequence, with threw FALSE) for an
\* empty buffer, else the elements of the pass; threw says the pass raised.
renderExplanation(buf) ==
    IF buf = <<>> THEN [elements |-> <<>>, threw |-> FALSE]
    ELSE [elements |-> renderPass(buf).elements, threw |-> renderPass(buf).threw]

-----------------------------------------------------------------------------
(* The stream: TextDecoder and the append of page.tsx:86-89.               *)

\* The bytes of the two-byte character e-acute; every other byte used is ASCII
\* and is written as its character.
LeadByte == "C3"

ContinuationByte == "A9"

TwoByteChar == "e'"

ReplacementChar == "U+FFFD"

\* The server's UTF-8 encoding of a text.
RECURSIVE encode(_)
encode(t) ==
    IF t = <<>> THEN <<>>
    ELSE (IF Head(t) = TwoByteChar THEN <<LeadByte, ContinuationByte>> ELSE <<Head(t)>>)
             \o encode(Tail(t))

\* One byte through the decoder: what it emits and what it holds back.
decodeByte(held, b) ==
    IF b = ContinuationByte
    THEN IF held = <<LeadByte>> THEN [out |-> <<TwoByteChar>>, held |-> <<>>]
         ELSE [out |-> <<ReplacementChar>>, held |-> <<>>]
    ELSE IF b = LeadByte
    THEN [out |-> IF held = <<>> THEN <<>> ELSE <<ReplacementChar>>, held |-> <<LeadByte>>]
    ELSE [out |-> (IF held = <<>> THEN <<>> ELSE <<ReplacementChar>>) \o <<b>>,
          held |-> <<>>]

\* decoder.decode(value, { stream: true }), page.tsx:86: an incomplete character
\* at the end of the chunk is held back for the next call.
RECURSIVE decode(_, _)
decode(held, bytes) ==
    IF bytes = <<>> THEN [out |-> <<>>, held |-> held]
    ELSE LET one  == decodeByte(held, Head(bytes))
             rest == decode(one.held, Tail(bytes))
         IN  [out |-> one.out \o rest.out, held |-> rest.held]

\* Variant: setExplanation(chunk).
appendChunkReplaces(prev, chunk) == chunk

\* Variant: setExplanation(prev => chunk + prev).
appendChunkInFront(prev, chunk) == chunk \o prev

\* setExplanation(prev => prev + chunk), page.tsx:89
appendChunk(prev, chunk) == prev \o chunk

-----------------------------------------------------------------------------
(* Bounds and input sets.                                                  *)

MaxReads == 3

MaxAskToasts == 1

MaxTextLen == 5

MaxChunkLen == 2

MaxChunks == 4

MaxLineLen == 7

MaxRows == 3

Strings(alphabet, n) == UNION {[1..k -> alphabet] : k \in 0..n}

Modes == <<"contract", "trend", "content">>

\* What the user can have typed: nothing, blanks, a question.
Questions == {<<>>, <<" ">>, <<"q">>, <<" ", "q">>}

\* What reader.read() can deliver in the request specification: any bytes.
WireChunks == {<<>>, <<"a">>, <<NewLine>>, <<LeadByte>>, <<ContinuationByte>>}

\* What the request can throw: Error objects with the transport's messages, and
\* a value that is no Error.
FetchErrors == {[isError |-> TRUE, message |-> "Failed to fetch"]}

ReadErrors == {[isError |-> TRUE, message |-> "network error"],
               [isError |-> FALSE, message |-> ""]}

\* What response.json() can yield for an error response: null, an object with
\* no (or an empty) error field, an object with an error field.
ErrorBodies == {[isNull |-> TRUE, error |-> ""],
                [isNull |-> FALSE, error |-> ""],
                [isNull |-> FALSE, error |-> "quota exceeded"]}

StreamAlphabet == {"*", "a", NewLine, TwoByteChar}

RenderChunks ==
    { <<NewLine>>, <<" ">>, <<"a">>, <<"*", "*">>,
      <<"#", "#", " ", "a">>, <<"#", "#", "#", " ", "a">>,
      <<"*", " ", "a">>, <<"|", "a">>, <<"|", "-">>,
      <<">", " ", "a">>, <<"-", "-", "-">> }

FormatAlphabet == {"*", "a", " "}

RowAlphabet == {"|", "-", " ", "a"}

\* The rows of the table specification: a pipe and up to two more characters,
\* and some longer rows of two cells, padded and indented.
RowSet ==
    {<<Pipe>>} \cup {<<Pipe, x>> : x \in RowAlphabet}
        \cup {<<Pipe, x, y>> : x \in RowAlphabet, y \in RowAlphabet}
        \cup { <<Pipe, "a", Pipe, "a", Pipe>>,
               <<Pipe, "-", Pipe, "-", Pipe>>,
               <<Pipe, "-", Pipe, "a", Pipe>>,
               <<" ", Pipe, " ", "-", " ", Pipe>>,
               <<Pipe, "*", "*", "a", "*", "*">> }

-----------------------------------------------------------------------------
(* The request state machine: analyzeContract, clearAll, toggleMode.       *)

\* page.tsx:96
errorMessage(err) ==
    IF err.isError THEN err.message ELSE "An unexpected error occurred"

HttpStatusMessage == "HTTP error! status"

\* Variant: new Error(errorData.error), without the fallback.
httpErrorNoFallback(errorData) ==
    IF errorData.isNull
    THEN [isError |-> TRUE, message |-> "Cannot read properties of null"]
    ELSE [isError |-> TRUE, message |-> errorData.error]

\* page.tsx:73: errorData.error || `HTTP error! status: ...`; reading .error of
\* null raises a TypeError, which the catch block receives instead.
httpError(errorData) ==
    IF errorData.isNull
    THEN [isError |-> TRUE, message |-> "Cannot read properties of null"]
    ELSE [isError |-> TRUE,
          message |-> IF errorData.error # "" THEN errorData.error ELSE HttpStatusMessage]

\* page.tsx:122-125
nextMode(mode) ==
    LET currentIndex == CHOOSE i \in 1..Len(Modes) : Modes[i] = mode
    IN  Modes[(currentIndex % Len(Modes)) + 1]

Running == pc \in {"fetch", "errorBody", "read"}

otherVars == <<text, line, spans, tableRows, table>>

InitUI ==
    /\ question = <<>>
    /\ explanation = <<>>
    /\ isLoading = FALSE
    /\ error = ""
    /\ currentMode = "contract"
    /\ pc = "idle"
    /\ wire = <<>>
    /\ pending = <<>>
    /\ reads = 0
    /\ errToasts = 0
    /\ askToasts = 0
    /\ received = <<>>
    /\ resetInFlight = FALSE
    /\ rendered = renderExplanation(<<>>)

InitOther ==
    /\ text = <<>>
    /\ line = <<>>
    /\ spans = formatText(<<>>)
    /\ tableRows = <<>>
    /\ table = renderTable(<<>>, 0)

Init == InitUI /\ InitOther

\* onChange, page.tsx:405
SetQuestion(q) ==
    /\ question' = q
    /\ UNCHANGED <<explanation, isLoading, error, currentMode, pc, wire, pending, reads,
                   errToasts, askToasts, received, resetInFlight, rendered>>
    /\ UNCHANGED otherVars

\* analyzeContract with a blank question, page.tsx:25-44.  The button is
\* disabled while isLoading (page.tsx:411).
AnalyzeBlank ==
    /\ ~isLoading
    /\ trim(question) = <<>>
    /\ askToasts < MaxAskToasts
    /\ askToasts' = askToasts + 1
    /\ UNCHANGED <<question, explanation, isLoading, error, currentMode, pc, wire,
                   pending, reads, errToasts, received, resetInFlight, rendered>>
    /\ UNCHANGED otherVars

\* analyzeContract up to the await of fetch, page.tsx:46-64.
AnalyzeStart ==
    /\ ~isLoading
    /\ trim(question) # <<>>
    /\ isLoading' = TRUE
    /\ error' = ""
    /\ explanation' = <<>>
    /\ rendered' = renderExplanation(explanation')
    /\ pc' = "fetch"
    /\ pending' = <<>>
    /\ reads' = 0
    /\ errToasts' = 0
    /\ received' = <<>>
    /\ resetInFlight' = FALSE
    /\ UNCHANGED <<question, currentMode, wire, askToasts>>
    /\ UNCHANGED otherVars

\* The catch and finally blocks, page.tsx:95-112.
Fail(err) ==
    /\ error' = errorMessage(err)
    /\ errToasts' = errToasts + 1
    /\ isLoading' = FALSE
    /\ pc' = "failed"
    /\ UNCHANGED <<question, explanation, currentMode, wire, pending, reads, askToasts,
                   received, resetInFlight, rendered>>
    /\ UNCHANGED otherVars

\* fetch rejects.
FetchRejects == pc = "fetch" /\ \E err \in FetchErrors : Fail(err)

\* !response.ok, page.tsx:66-69: on to await response.json().
FetchNotOk ==
    /\ pc = "fetch"
    /\ pc' = "errorBody"
    /\ UNCHANGED <<question, explanation, isLoading, error, currentMode, wire, pending,
                   reads, errToasts, askToasts, received, resetInFlight, rendered>>
    /\ UNCHANGED otherVars

\* response.json() rejects, page.tsx:70-72.
ErrorBodyUnparseable ==
    pc = "errorBody" /\ Fail([isError |-> TRUE, message |-> HttpStatusMessage])

\* response.json() resolves, page.tsx:73.
ErrorBodyParsed == pc = "errorBody" /\ \E errorData \in ErrorBodies : Fail(httpError(errorData))

\* response.ok with a null body, page.tsx:91-93.
NullBody == pc = "fetch" /\ Fail([isError |-> TRUE, message |-> "Response body is null"])

\* response.ok with a body, page.tsx:77-79: a reader and a fresh decoder.
OpenBody ==
    /\ pc = "fetch"
    /\ pc' = "read"
    /\ pending' = <<>>
    /\ UNCHANGED <<question, explanation, isLoading, error, currentMode, wire, reads,
                   errToasts, askToasts, received, resetInFlight, rendered>>
    /\ UNCHANGED otherVars

\* One turn of the loop with done false, page.tsx:82-89, and the render that
\* follows the state update.
ReadChunk(bytes) ==
    /\ pc = "read"
    /\ reads < MaxReads
    /\ LET chunk == decode(pending, bytes)
       IN  /\ explanation' = appendChunk(explanation, chunk.out)
           /\ pending' = chunk.held
           /\ received' = Append(received, chunk.out)
    /\ rendered' = renderExplanation(explanation')
    /\ reads' = reads + 1
    /\ UNCHANGED <<question, isLoading, error, currentMode, pc, wire, errToasts,
                   askToasts, resetInFlight>>
    /\ UNCHANGED otherVars

\* reader.read() resolves with done, page.tsx:83, then finally.
ReadDone ==
    /\ pc = "read"
    /\ pc' = "succeeded"
    /\ isLoading' = FALSE
    /\ UNCHANGED <<question, explanation, error, currentMode, wire, pending, reads,
                   errToasts, askToasts, received, resetInFlight, rendered>>
    /\ UNCHANGED otherVars

\* reader.read() rejects.
ReadFails == pc = "read" /\ \E err \in ReadErrors : Fail(err)

\* clearAll, page.tsx:115-119, on the state and the two history variables.
cleared ==
    /\ question' = <<>>
    /\ explanation' = <<>>
    /\ error' = ""
    /\ rendered' = renderExplanation(explanation')
    /\ received' = <<>>
    /\ resetInFlight' = (resetInFlight \/ Running)

ClearAll ==
    /\ cleared
    /\ UNCHANGED <<isLoading, currentMode, pc, wire, pending, reads, errToasts, askToasts>>
    /\ UNCHANGED otherVars

\* toggleMode, page.tsx:121-127
ToggleMode ==
    /\ currentMode' = nextMode(currentMode)
    /\ cleared
    /\ UNCHANGED <<isLoading, pc, wire, pending, reads, errToasts, askToasts>>
    /\ UNCHANGED otherVars

Next ==
    \/ \E q \in Questions : SetQuestion(q)
    \/ AnalyzeBlank
    \/ AnalyzeStart
    \/ FetchRejects
    \/ FetchNotOk
    \/ ErrorBodyUnparseable
    \/ ErrorBodyParsed
    \/ NullBody
    \/ OpenBody
    \/ \E bytes \in WireChunks : ReadChunk(bytes)
    \/ ReadDone
    \/ ReadFails
    \/ ClearAll
    \/ ToggleMode

Spec == Init /\ [][Next]_vars

-----------------------------------------------------------------------------
(* One response streamed to the end: the loop of page.tsx:81-90 over the   *)
(* bytes of a complete text, cut into chunks at any byte.                  *)

uiRest == <<question, error, currentMode, errToasts, askToasts, received, resetInFlight>>

InitStream ==
    /\ text \in Strings(StreamAlphabet, MaxTextLen)
    /\ wire = encode(text)
    /\ question = <<"q">>
    /\ explanation = <<>>
    /\ isLoading = TRUE
    /\ error = ""
    /\ currentMode = "contract"
    /\ pc = "read"
    /\ pending = <<>>
    /\ reads = 0
    /\ errToasts = 0
    /\ askToasts = 0
    /\ received = <<>>
    /\ resetInFlight = FALSE
    /\ rendered = renderExplanation(<<>>)
    /\ line = <<>>
    /\ spans = formatText(<<>>)
    /\ tableRows = <<>>
    /\ table = renderTable(<<>>, 0)

\* reader.read() delivers the next n bytes (n = 0: an empty chunk).
StreamRead(n) ==
    /\ pc = "read"
    /\ n <= Len(wire)
    /\ LET chunk == decode(pending, SubSeq(wire, 1, n))
       IN  /\ explanation' = appendChunk(explanation, chunk.out)
           /\ pending' = chunk.held
    /\ wire' = SubSeq(wire, n + 1, Len(wire))
    /\ rendered' = renderExplanation(explanation')
    /\ reads' = IF reads < MaxReads THEN reads + 1 ELSE reads
    /\ UNCHANGED <<isLoading, pc, text, line, spans, tableRows, table>>
    /\ UNCHANGED uiRest

\* reader.read() resolves with done once every byte was delivered.
StreamEnd ==
    /\ pc = "read"
    /\ wire = <<>>
    /\ pc' = "succeeded"
    /\ isLoading' = FALSE
    /\ UNCHANGED <<explanation, wire, pending, reads, rendered, text, line, spans,
                   tableRows, table>>
    /\ UNCHANGED uiRest

NextStream ==
    \/ \E n \in 0..MaxChunkLen : StreamRead(n)
    \/ StreamEnd

SpecStream == InitStream /\ [][NextStream]_vars

-----------------------------------------------------------------------------
(* The buffer grown chunk by chunk and rendered after each append          *)
(* (page.tsx:89, 441): every buffer built from at most MaxChunks chunks.   *)

InitRender ==
    /\ question = <<"q">>
    /\ explanation = <<>>
    /\ isLoading = TRUE
    /\ error = ""
    /\ currentMode = "contract"
    /\ pc = "read"
    /\ wire = <<>>
    /\ pending = <<>>
    /\ reads = 0
    /\ errToasts = 0
    /\ askToasts = 0
    /\ received = <<>>
    /\ resetInFlight = FALSE
    /\ rendered = renderExplanation(<<>>)
    /\ InitOther

RenderAppend(chunk) ==
    /\ reads < MaxChunks
    /\ explanation' = appendChunk(explanation, chunk)
    /\ rendered' = renderExplanation(explanation')
    /\ reads' = reads + 1
    /\ UNCHANGED <<isLoading, pc, wire, pending, text, line, spans, tableRows, table>>
    /\ UNCHANGED uiRest

NextRender == \E chunk \in RenderChunks : RenderAppend(chunk)

SpecRender == InitRender /\ [][NextRender]_vars

-----------------------------------------------------------------------------
(* renderTable on every run of at most MaxRows rows of RowSet.             *)

AddRow(row) ==
    /\ Len(tableRows) < MaxRows
    /\ tableRows' = Append(tableRows, row)
    /\ table' = renderTable(tableRows', 0)
    /\ UNCHANGED <<explanation, isLoading, pc, wire, pending, reads, rendered, text,
                   line, spans>>
    /\ UNCHANGED uiRest

NextTable == \E row \in RowSet : AddRow(row)

SpecTable == Init /\ [][NextTable]_vars

-----------------------------------------------------------------------------
(* formatText on every line of at most MaxLineLen characters.              *)

TypeChar(c) ==
    /\ Len(line) < MaxLineLen
    /\ line' = Append(line, c)
    /\ spans' = formatText(line')
    /\ UNCHANGED <<explanation, isLoading, pc, wire, pending, reads, rendered, text,
                   tableRows, table>>
    /\ UNCHANGED uiRest

NextFormat == \E c \in FormatAlphabet : TypeChar(c)

SpecFormat == Init /\ [][NextFormat]_vars

-----------------------------------------------------------------------------
(* Vocabulary of the properties.                                           *)

\* The block a line starts, by the precedence of the classifier: rule, heading,
\* list item, blockquote, table row, blank, paragraph.
classOf(rawLine) ==
    LET t == trim(rawLine)
    IN  IF t = Rule THEN "hr"
        ELSE IF startsWith(t, H2) THEN "h2"
        ELSE IF startsWith(t, H3) THEN "h3"
        ELSE IF startsWith(t, Bullet) THEN "li"
        ELSE IF startsWith(t, Quote) THEN "blockquote"
        ELSE IF startsWith(t, <<Pipe>>) THEN "row"
        ELSE IF t = <<>> THEN "blank"
        ELSE "p"

\* The elements pushed once the callback has run on the first n lines.
elementsAfter(lines, n) == passAfter(lines, n).elements

\* lines[a..b] is a maximal run of lines of class c.
maximalRun(lines, a, b, c) ==
    /\ a <= b
    /\ \A i \in a..b : classOf(lines[i]) = c
    /\ (a = 1 \/ classOf(lines[a - 1]) # c)
    /\ (b = Len(lines) \/ classOf(lines[b + 1]) # c)

\* The list block of the item lines lines[a..b], pushed as the key-th element.
listBlock(lines, a, b, key) ==
    [type  |-> "ul",
     key   |-> key,
     items |-> [k \in 1..(b - a + 1) |->
                   formatText(substringFrom(trim(lines[a + k - 1]), 2))]]

BlockTypes == {"hr", "h2", "h3", "ul", "blockquote", "table", "div", "spacer", "p"}

Last(seq) == seq[Len(seq)]

\* C1: monotonic streaming.  Once the stream has ended, the blocks rendered from
\* the buffer that was appended to chunk by chunk are the blocks rendered from
\* a buffer to which the whole text was appended as one chunk.
C1_MonotonicStreaming ==
    pc = "succeeded" =>
        rendered = renderExplanation(appendChunk(<<>>, decode(<<>>, encode(text)).out))

\* A text with a closed ** pair and a two-byte character, delivered in three or
\* more chunks.
C1_Witness ==
    /\ pc = "succeeded"
    /\ reads >= 3
    /\ \E k \in 1..Len(text) : text[k] = TwoByteChar
    /\ \E k \in 1..(Len(text) - 3) : SubSeq(text, k, k + 3) = Stars \o Stars
    /\ explanation = text

\* C2: buffer lifecycle.  The buffer is the concatenation, in delivery order, of
\* the chunks received since the last reset; request start, clearAll and
\* toggleMode leave it empty; no other step than these and a chunk's arrival
\* changes it.
C2_BufferLifecycle ==
    /\ [](explanation = Concat(received))
    /\ [][/\ (AnalyzeStart \/ ClearAll \/ ToggleMode) => explanation' = <<>>
          /\ explanation' # explanation =>
                \/ AnalyzeStart \/ ClearAll \/ ToggleMode
                \/ \E bytes \in WireChunks : ReadChunk(bytes)]_vars

\* Two chunks received after a reset that came in mid-stream.
C2_Witness ==
    /\ Len(received) >= 2
    /\ received[1] # <<>>
    /\ received[2] # <<>>
    /\ received[1] # received[2]
    /\ resetInFlight

\* C3: totality under truncation.  No render pass raises, every element is a
\* block, and a list or table run cut off by the end of the buffer is rendered
\* from the lines received so far.
C3_TotalUnderTruncation ==
    /\ ~rendered.threw
    /\ \A k \in 1..Len(rendered.elements) : rendered.elements[k].type \in BlockTypes
    /\ explanation # <<>> =>
          LET lines == linesOf(explanation)
              n     == Len(lines)
              last  == Len(rendered.elements)
          IN  \A a \in 1..n :
                /\ maximalRun(lines, a, n, "li") =>
                      rendered.elements[last] = listBlock(lines, a, n, last - 1)
                /\ maximalRun(lines, a, n, "row") =>
                      rendered.elements[last] = renderTable(SubSeq(lines, a, n), last - 1)

\* A buffer that ends inside a table run of two rows, the second one cut off
\* after unbalanced asterisks.
C3_Witness ==
    /\ explanation # <<>>
    /\ LET lines == linesOf(explanation)
       IN  /\ Len(lines) >= 2
           /\ maximalRun(lines, Len(lines) - 1, Len(lines), "row")
           /\ endsWith(explanation, Stars)
    /\ Last(rendered.elements).type = "table"

\* C4: blank-line suppression.  A line that is empty after trimming pushes one
\* spacer, unless the line before it is a heading line or the line after it is a
\* list-item line; then it pushes nothing.
suppressedBlank(lines, idx) ==
    \/ idx > 1 /\ classOf(lines[idx - 1]) \in {"h2", "h3"}
    \/ idx < Len(lines) /\ classOf(lines[idx + 1]) = "li"

C4_BlankLineSuppression ==
    explanation # <<>> =>
        LET lines == linesOf(explanation)
        IN  \A idx \in 1..Len(lines) :
              classOf(lines[idx]) = "blank" =>
                 LET before == elementsAfter(lines, idx - 1)
                 IN  elementsAfter(lines, idx) =
                        IF suppressedBlank(lines, idx) THEN before
                        ELSE Append(before, [type |-> "spacer", key |-> Len(before)])

\* A blank after a list item that pushes a spacer and a blank before a list item
\* that pushes nothing, in one buffer.
C4_Witness ==
    /\ explanation # <<>>
    /\ LET lines == linesOf(explanation)
       IN  \E i, j \in 1..Len(lines) :
              /\ classOf(lines[i]) = "blank" /\ classOf(lines[j]) = "blank"
              /\ i > 1 /\ classOf(lines[i - 1]) = "li" /\ ~suppressedBlank(lines, i)
              /\ suppressedBlank(lines, j)
    /\ \E k \in 1..Len(rendered.elements) : rendered.elements[k].type = "spacer"

\* C5: table header detection.  A run of two or more rows has a header exactly
\* when row 1 holds nothing but pipes, hyphens and white space (each of its
\* cells is empty or hyphens and white space); then the header is the cells of
\* row 0 and the body the rows from row 2, else there is no header and the
\* body is every row.  Rows of differing cell counts are taken as they are.
separatorRow(row) == \A k \in 1..Len(row) : row[k] \in {Pipe, "-"} \cup WhiteSpace

cellsOf(row) == formatCells(tableCells(row))

C5_HeaderDetection ==
    Len(tableRows) >= 2 =>
        /\ table.type = "table"
        /\ table.hasHeader <=> separatorRow(tableRows[2])
        /\ table.hasHeader =>
              /\ table.header = cellsOf(tableRows[1])
              /\ table.rows = [r \in 1..(Len(tableRows) - 2) |-> cellsOf(tableRows[r + 2])]
        /\ ~table.hasHeader =>
              /\ table.header = <<>>
              /\ table.rows = [r \in 1..Len(tableRows) |-> cellsOf(tableRows[r])]

\* A header of two cells over a separator row and one data row of one cell.
C5_Witness ==
    /\ Len(tableRows) = 3
    /\ table.hasHeader
    /\ Len(table.header) = 2
    /\ Len(table.rows) = 1
    /\ Len(table.rows[1]) = 1

\* C6 as stated: a table row with no table row next to it yields one Paragraph
\* of that line (the line through the inline formatter) and no table.
paragraphSpans(e) == IF e.type = "div" THEN <<Plain(e.text)>> ELSE e.spans

C6_SingleRowIsParagraph ==
    explanation # <<>> =>
        LET lines == linesOf(explanation)
        IN  \A idx \in 1..Len(lines) :
              maximalRun(lines, idx, idx, "row") =>
                 LET before == elementsAfter(lines, idx - 1)
                     after  == elementsAfter(lines, idx)
                 IN  /\ Len(after) = Len(before) + 1
                     /\ SubSeq(after, 1, Len(before)) = before
                     /\ Last(after).type \in {"p", "div"}
                     /\ paragraphSpans(Last(after)) = formatText(lines[idx])

\* C6 amended: such a row yields exactly one block, which holds the raw line as
\* it is (its ** pairs stay literal), and no table.
C6_SingleRowIsRawText ==
    explanation # <<>> =>
        LET lines == linesOf(explanation)
        IN  \A idx \in 1..Len(lines) :
              maximalRun(lines, idx, idx, "row") =>
                 LET before == elementsAfter(lines, idx - 1)
                 IN  elementsAfter(lines, idx) =
                        Append(before, [type |-> "div", key |-> Len(before),
                                        text |-> lines[idx]])

\* A single table row with a closed ** pair in it, a blank line after it.
C6_Witness ==
    /\ explanation # <<>>
    /\ LET lines == linesOf(explanation)
       IN  /\ Len(lines) = 2
           /\ maximalRun(lines, 1, 1, "row")
           /\ Len(formatText(lines[1])) > 1
           /\ classOf(lines[2]) = "blank"
    /\ Len(rendered.elements) = 2
    /\ rendered.elements[1].type = "div"

\* C7: inline bold.  A piece of the split is a Bold span, its markers stripped,
\* exactly when it starts and ends with ** and is at least 4 long; every other
\* piece is a Plain span of the piece; a line without a closed pair is one
\* Plain span.
claimedSpan(part) ==
    IF isBoldPart(part) /\ Len(part) >= 4
    THEN Bold(SubSeq(part, 3, Len(part) - 2))
    ELSE Plain(part)

C7_BoldExactlyClosedPairs ==
    LET parts == splitBold(line)
    IN  spans = IF Len(parts) = 1 THEN <<Plain(line)>>
                ELSE [k \in 1..Len(parts) |-> claimedSpan(parts[k])]

\* C8: run flushing.  Every maximal run of list-item lines pushes one list of
\* exactly its lines, every maximal run of table rows one table block of
\* exactly its lines, each at the last line of the run and nothing before it;
\* no line pushes two blocks, and no run is open when the pass ends.
C8_RunFlushing ==
    explanation # <<>> =>
        LET lines == linesOf(explanation)
            n     == Len(lines)
        IN  /\ \A a \in 1..n : \A b \in a..n :
                 LET before == elementsAfter(lines, a - 1)
                 IN  /\ maximalRun(lines, a, b, "li") =>
                           /\ \A i \in a..(b - 1) : elementsAfter(lines, i) = before
                           /\ elementsAfter(lines, b) =
                                 Append(before, listBlock(lines, a, b, Len(before)))
                     /\ maximalRun(lines, a, b, "row") =>
                           /\ \A i \in a..(b - 1) : elementsAfter(lines, i) = before
                           /\ elementsAfter(lines, b) =
                                 Append(before,
                                        renderTable(SubSeq(lines, a, b), Len(before)))
            /\ \A i \in 1..n :
                 Len(elementsAfter(lines, i)) <= Len(elementsAfter(lines, i - 1)) + 1
            /\ ~passAfter(lines, n).inList
            /\ ~passAfter(lines, n).inTable

\* Two list runs in one buffer, a blank line between them.
C8_Witness ==
    /\ explanation # <<>>
    /\ LET lines == linesOf(explanation)
       IN  \E a \in 1..Len(lines) : \E c \in 1..Len(lines) :
              /\ maximalRun(lines, a, a, "li")
              /\ c > a + 1
              /\ maximalRun(lines, c, c, "li")
    /\ Cardinality({k \in 1..Len(rendered.elements) : rendered.elements[k].type = "ul"}) = 2

\* C9: no stale chunks.  Once clearAll or toggleMode has reset the buffer while
\* a request was running, the buffer stays empty until the next request starts.
C9_NoStaleChunks == resetInFlight => explanation = <<>>

\* C10: request outcome.  The step that ends a request leaves isLoading false;
\* a failed request has raised exactly one error toast and set the error
\* message, a successful one has raised none and left the message empty.
C10_RequestOutcome ==
    [][/\ (Running /\ pc' = "failed") =>
             ~isLoading' /\ errToasts' = 1 /\ error' # ""
       /\ (Running /\ pc' = "succeeded") =>
             ~isLoading' /\ errToasts' = 0 /\ error' = ""]_vars

\* A request that failed on an error response whose body had no error field.
C10_Witness ==
    /\ pc = "failed"
    /\ ~isLoading
    /\ errToasts = 1
    /\ error = HttpStatusMessage

====
